---- MODULE Spec2Model ----
(***************************************************************************)
(* Model of the banking system of exercício2.py: the clients and accounts  *)
(* registries kept by main(), the menu operations that act on them, and    *)
(* the account / transaction / history classes those operations call.      *)
(*                                                                         *)
(* Objects are identified by their position in the registry that holds    *)
(* them (both registries are append-only lists): a client is named by its  *)
(* index in clientes, an account by its index in contas.  Amounts are      *)
(* integers.  The "data" field of a history entry (wall-clock time) is     *)
(* read by no operation and is left out of the entries; strftime is taken  *)
(* to accept the "%s" of its format, as the C library of Linux does.       *)
(* Leaving the menu ("x") ends the process and with it the whole state.    *)
(***************************************************************************)
EXTENDS Integers, Sequences, FiniteSets, TLC

\* ---- bounds of the model ------------------------------------------------
\* accounts created, history entries and deposit entries kept over all accounts,
\* highest balance
MaxContas == 2
MaxHist == 4
MaxDepositos == 1
MaxSaldo == 700

\* the tax ids typed at the prompts
CPFs == {1, 2}
\* the amounts typed at the prompts: of a withdrawal, of a deposit
Valores == {0, 100, 500, 600}
ValoresDeposito == {-100, 100}

\* ---- program constants ---------------------------------------------------
LIMITE == 500
LIMITE_SAQUES == 3

VARIABLES clientes, contas, op

vars == <<clientes, contas, op>>

\* ---- helpers -------------------------------------------------------------
RECURSIVE SumSeq(_)
SumSeq(s) == IF s = <<>> THEN 0 ELSE Head(s) + SumSeq(Tail(s))

RECURSIVE HistTotal(_)
HistTotal(cs) == IF cs = <<>> THEN 0 ELSE Len(Head(cs).historico) + HistTotal(Tail(cs))

EhDeposito(t) == t.tipo = "Deposito"

RECURSIVE DepositosTotal(_)
DepositosTotal(cs) ==
  IF cs = <<>> THEN 0
  ELSE Len(SelectSeq(Head(cs).historico, EhDeposito)) + DepositosTotal(Tail(cs))

\* the outcome shown for the latest menu option
\* (conta: the account the option reached, 0 for none; registrar, retorno: the
\* values returned by Transacao.registrar and by the outermost call, "-" if not called)
Op(opcao, cpf, valor, conta, motivo, registrar, retorno) ==
  [opcao |-> opcao, cpf |-> cpf, valor |-> valor, conta |-> conta,
   motivo |-> motivo, registrar |-> registrar, retorno |-> retorno]

NoOp(opcao, cpf, valor, motivo) == Op(opcao, cpf, valor, 0, motivo, "-", "-")

Bool(b) == IF b THEN "True" ELSE "False"

\* ---- Cliente / PessoaFisica ------------------------------------------------
PessoaFisica(cpf) == [cpf |-> cpf, contas |-> <<>>]

\* adicionar_conta leaving the list as it was
adicionar_contaEsquece(cliente, conta) == cliente

adicionar_conta(cliente, conta) == [cliente EXCEPT !.contas = Append(@, conta)]

\* ---- Historico --------------------------------------------------------------
\* an entry is a dict carrying the class name of the transaction and its value
Entrada(tipo, valor) == [classe |-> "dict", tipo |-> tipo, valor |-> valor]

\* adicionar_transacao putting the entry first (insert(0, ...))
adicionar_transacaoNoInicio(historico, tipo, valor) == <<Entrada(tipo, valor)>> \o historico

adicionar_transacao(historico, tipo, valor) == Append(historico, Entrada(tipo, valor))

\* isinstance(t, Saque), t an element of historico.transacoes
IsInstanceSaque(t) == t.classe = "Saque"

\* ---- Conta / ContaCorrente --------------------------------------------------
\* nova_conta passing its arguments to the constructor in its own order
nova_contaTrocada(cliente, numero) ==
  [numero |-> cliente, cliente |-> numero, saldo |-> 0, agencia |-> "0001",
   historico |-> <<>>, limite |-> LIMITE, limite_saques |-> LIMITE_SAQUES]

nova_conta(cliente, numero) ==
  [numero |-> numero, cliente |-> cliente, saldo |-> 0, agencia |-> "0001",
   historico |-> <<>>, limite |-> LIMITE, limite_saques |-> LIMITE_SAQUES]

numero_saques(conta) == Len(SelectSeq(conta.historico, IsInstanceSaque))

\* ContaCorrente.sacar without its last test (available funds)
ContaCorrenteSacarMotivoSemDisponivel(conta, valor) ==
  IF valor <= 0 THEN "valor_invalido"
  ELSE IF valor > conta.limite THEN "excede_limite"
  ELSE IF numero_saques(conta) >= conta.limite_saques THEN "excede_saques"
  ELSE "sucesso"

\* ContaCorrente.sacar without its second test (amount above the limit)
ContaCorrenteSacarMotivoSemLimite(conta, valor) ==
  IF valor <= 0 THEN "valor_invalido"
  ELSE IF numero_saques(conta) >= conta.limite_saques THEN "excede_saques"
  ELSE IF valor > conta.saldo + conta.limite THEN "excede_disponivel"
  ELSE "sucesso"

\* the branch ContaCorrente.sacar takes, in the order of its tests
ContaCorrenteSacarMotivo(conta, valor) ==
  IF valor <= 0 THEN "valor_invalido"
  ELSE IF valor > conta.limite THEN "excede_limite"
  ELSE IF numero_saques(conta) >= conta.limite_saques THEN "excede_saques"
  ELSE IF valor > conta.saldo + conta.limite THEN "excede_disponivel"
  ELSE "sucesso"

\* ContaCorrente.sacar: the account afterwards and the value returned
ContaCorrenteSacar(conta, valor) ==
  LET motivo == ContaCorrenteSacarMotivo(conta, valor) IN
  IF motivo = "sucesso"
  THEN [conta |-> [conta EXCEPT !.saldo = @ - valor], ret |-> TRUE, motivo |-> motivo]
  ELSE [conta |-> conta, ret |-> FALSE, motivo |-> motivo]

\* Conta.depositar: the account afterwards and the value returned
ContaDepositar(conta, valor) ==
  IF valor <= 0
  THEN [conta |-> conta, ret |-> FALSE, motivo |-> "valor_invalido"]
  ELSE [conta |-> [conta EXCEPT !.saldo = @ + valor], ret |-> TRUE, motivo |-> "sucesso"]

\* ---- Transacao ---------------------------------------------------------------
\* Saque.registrar recording the withdrawal whatever conta.sacar returned
SaqueRegistrarSempre(conta, valor) ==
  LET r == ContaCorrenteSacar(conta, valor) IN
  [conta |-> [r.conta EXCEPT !.historico = adicionar_transacao(@, "Saque", valor)],
   motivo |-> r.motivo,
   retorno |-> "None"]

\* Saque.registrar ending in "return sucesso_transacao"
SaqueRegistrarRetornaSucesso(conta, valor) ==
  LET r == ContaCorrenteSacar(conta, valor) IN
  [conta |-> IF r.ret
             THEN [r.conta EXCEPT !.historico = adicionar_transacao(@, "Saque", valor)]
             ELSE r.conta,
   motivo |-> r.motivo,
   retorno |-> Bool(r.ret)]

\* Saque.registrar: the account afterwards, the outcome printed, the value returned
SaqueRegistrar(conta, valor) ==
  LET r == ContaCorrenteSacar(conta, valor) IN
  [conta |-> IF r.ret
             THEN [r.conta EXCEPT !.historico = adicionar_transacao(@, "Saque", valor)]
             ELSE r.conta,
   motivo |-> r.motivo,
   retorno |-> "None"]

\* Deposito.registrar: records the deposit in the history and nothing else
DepositoRegistrar(conta, valor) ==
  [conta |-> [conta EXCEPT !.historico = adicionar_transacao(@, "Deposito", valor)],
   motivo |-> "registrado",
   retorno |-> "None"]

registrar(tipo, conta, valor) ==
  IF tipo = "Saque" THEN SaqueRegistrar(conta, valor) ELSE DepositoRegistrar(conta, valor)

\* Cliente.realizar_transacao: calls registrar and returns nothing itself
realizar_transacao(conta, tipo, valor) ==
  LET r == registrar(tipo, conta, valor) IN
  [conta |-> r.conta, motivo |-> r.motivo, registrar |-> r.retorno, retorno |-> "None"]

\* ---- lookups ------------------------------------------------------------------
\* filtrar_cliente falling back on the first client of the registry
filtrar_clienteOuPrimeiro(cpf, cs) ==
  LET achados == {i \in 1..Len(cs) : cs[i].cpf = cpf} IN
  IF achados = {} THEN (IF cs = <<>> THEN 0 ELSE 1)
  ELSE CHOOSE i \in achados : \A j \in achados : i <= j

\* filtrar_cliente: index of the first client with that cpf, 0 for None
filtrar_cliente(cpf, cs) ==
  LET achados == {i \in 1..Len(cs) : cs[i].cpf = cpf} IN
  IF achados = {} THEN 0 ELSE CHOOSE i \in achados : \A j \in achados : i <= j

\* recuperar_conta_cliente returning the last account (contas[-1])
recuperar_conta_clienteUltima(cliente) ==
  IF cliente.contas = <<>> THEN 0 ELSE cliente.contas[Len(cliente.contas)]

\* recuperar_conta_cliente: the client's first account, 0 for None
recuperar_conta_cliente(cliente) ==
  IF cliente.contas = <<>> THEN 0 ELSE cliente.contas[1]

\* ---- state ----------------------------------------------------------------------
Init ==
  /\ clientes = <<>>
  /\ contas = <<>>
  /\ op = NoOp("inicio", 0, 0, "-")

depositar ==
  \E cpf \in CPFs, valor \in ValoresDeposito :
    LET cliente == filtrar_cliente(cpf, clientes) IN
    IF cliente = 0
    THEN /\ op' = NoOp("d", cpf, valor, "cliente_nao_encontrado")
         /\ UNCHANGED <<clientes, contas>>
    ELSE LET conta == recuperar_conta_cliente(clientes[cliente]) IN
         IF conta = 0
         THEN /\ op' = NoOp("d", cpf, valor, "cliente_sem_conta")
              /\ UNCHANGED <<clientes, contas>>
         ELSE LET r == realizar_transacao(contas[conta], "Deposito", valor) IN
              /\ contas' = [contas EXCEPT ![conta] = r.conta]
              /\ HistTotal(contas') <= MaxHist
              /\ DepositosTotal(contas') <= MaxDepositos
              /\ op' = Op("d", cpf, valor, conta, r.motivo, r.registrar, r.retorno)
              /\ UNCHANGED clientes

sacar ==
  \E cpf \in CPFs, valor \in Valores :
    LET cliente == filtrar_cliente(cpf, clientes) IN
    IF cliente = 0
    THEN /\ op' = NoOp("s", cpf, valor, "cliente_nao_encontrado")
         /\ UNCHANGED <<clientes, contas>>
    ELSE LET conta == recuperar_conta_cliente(clientes[cliente]) IN
         IF conta = 0
         THEN /\ op' = NoOp("s", cpf, valor, "cliente_sem_conta")
              /\ UNCHANGED <<clientes, contas>>
         ELSE LET r == realizar_transacao(contas[conta], "Saque", valor) IN
              /\ contas' = [contas EXCEPT ![conta] = r.conta]
              /\ HistTotal(contas') <= MaxHist
              /\ op' = Op("s", cpf, valor, conta, r.motivo, r.registrar, r.retorno)
              /\ UNCHANGED clientes

exibir_extrato ==
  \E cpf \in CPFs :
    LET c == filtrar_cliente(cpf, clientes) IN
    /\ op' = NoOp("e", cpf, 0,
                  IF c = 0 THEN "cliente_nao_encontrado"
                  ELSE IF recuperar_conta_cliente(clientes[c]) = 0 THEN "cliente_sem_conta"
                  ELSE "extrato")
    /\ UNCHANGED <<clientes, contas>>

\* criar_cliente without the lookup of the cpf
criar_clienteSemFiltro ==
  \E cpf \in CPFs :
    /\ clientes' = Append(clientes, PessoaFisica(cpf))
    /\ op' = NoOp("nu", cpf, 0, "sucesso")
    /\ UNCHANGED contas

criar_cliente ==
  \E cpf \in CPFs :
    IF filtrar_cliente(cpf, clientes) # 0
    THEN /\ op' = NoOp("nu", cpf, 0, "cpf_ja_existe")
         /\ UNCHANGED <<clientes, contas>>
    ELSE /\ clientes' = Append(clientes, PessoaFisica(cpf))
         /\ op' = NoOp("nu", cpf, 0, "sucesso")
         /\ UNCHANGED contas

\* main's "nc" branch: numero_conta = len(contas) + 1, then criar_conta
criar_conta ==
  \E cpf \in CPFs :
    LET numero_conta == Len(contas) + 1
        c == filtrar_cliente(cpf, clientes) IN
    IF c = 0
    THEN /\ op' = NoOp("nc", cpf, 0, "cliente_nao_encontrado")
         /\ UNCHANGED <<clientes, contas>>
    ELSE /\ Len(contas) < MaxContas
         /\ contas' = Append(contas, nova_conta(c, numero_conta))
         /\ clientes' = [clientes EXCEPT ![c] = adicionar_conta(@, Len(contas) + 1)]
         /\ op' = NoOp("nc", cpf, 0, "sucesso")

listar_contas ==
  /\ op' = NoOp("lc", 0, 0, "listagem")
  /\ UNCHANGED <<clientes, contas>>

Next ==
  \/ depositar
  \/ sacar
  \/ exibir_extrato
  \/ criar_cliente
  \/ criar_conta
  \/ listar_contas

Spec == Init /\ [][Next]_vars

\* ---- the classes used directly -------------------------------------------------
\* a caller of the classes invokes conta.depositar(valor) on an account
Conta_depositar ==
  \E n \in 1..Len(contas), valor \in ValoresDeposito :
    LET r == ContaDepositar(contas[n], valor) IN
    /\ r.conta.saldo <= MaxSaldo
    /\ contas' = [contas EXCEPT ![n] = r.conta]
    /\ op' = Op("Conta.depositar", 0, valor, n, r.motivo, "-", Bool(r.ret))
    /\ UNCHANGED clientes

\* ---- the base class Conta used directly ------------------------------------------
\* Conta(numero, cliente): an account of the base class
Conta(numero, cliente) ==
  [numero |-> numero, cliente |-> cliente, saldo |-> 0, agencia |-> "0001",
   historico |-> <<>>]

\* Conta.sacar without its test of the balance
ContaSacarSemSaldo(conta, valor) ==
  IF valor <= 0
  THEN [conta |-> conta, ret |-> FALSE, motivo |-> "valor_invalido"]
  ELSE [conta |-> [conta EXCEPT !.saldo = @ - valor], ret |-> TRUE, motivo |-> "sucesso"]

\* Conta.sacar: the account afterwards and the value returned
ContaSacar(conta, valor) ==
  IF valor <= 0
  THEN [conta |-> conta, ret |-> FALSE, motivo |-> "valor_invalido"]
  ELSE IF valor > conta.saldo
  THEN [conta |-> conta, ret |-> FALSE, motivo |-> "saldo_insuficiente"]
  ELSE [conta |-> [conta EXCEPT !.saldo = @ - valor], ret |-> TRUE, motivo |-> "sucesso"]

\* a caller of the classes invokes conta.sacar(valor) on an account of the base class
Conta_sacar ==
  \E n \in 1..Len(contas), valor \in Valores :
    LET r == ContaSacar(contas[n], valor) IN
    /\ contas' = [contas EXCEPT ![n] = r.conta]
    /\ op' = Op("Conta.sacar", 0, valor, n, r.motivo, "-", Bool(r.ret))
    /\ UNCHANGED clientes

\* a caller of the classes creates an account of the base class for the client
Conta_nova_conta ==
  /\ Len(contas) < MaxContas
  /\ contas' = Append(contas, Conta(Len(contas) + 1, 1))
  /\ op' = Op("Conta.nova_conta", 0, 0, Len(contas) + 1, "sucesso", "-", "-")
  /\ UNCHANGED clientes

\* one client and no account
InitBasica ==
  /\ clientes = <<PessoaFisica(1)>>
  /\ contas = <<>>
  /\ op = NoOp("nu", 1, 0, "sucesso")

NextBasica ==
  \/ Conta_nova_conta
  \/ Conta_depositar
  \/ Conta_sacar

SpecBasica == InitBasica /\ [][NextBasica]_vars

\* one client holding one account, as main leaves them after "nu" and "nc"
InitConta ==
  /\ clientes = <<adicionar_conta(PessoaFisica(1), 1)>>
  /\ contas = <<nova_conta(1, 1)>>
  /\ op = NoOp("nc", 1, 0, "sucesso")

NextConta ==
  \/ depositar
  \/ sacar
  \/ Conta_depositar

SpecConta == InitConta /\ [][NextConta]_vars

\* ---- what the claims speak of -------------------------------------------------
Contas == 1..Len(contas)

\* the amounts of the history entries of one kind
RECURSIVE ValoresDoTipo(_, _)
ValoresDoTipo(historico, tipo) ==
  IF historico = <<>> THEN <<>>
  ELSE IF Head(historico).tipo = tipo
       THEN <<Head(historico).valor>> \o ValoresDoTipo(Tail(historico), tipo)
       ELSE ValoresDoTipo(Tail(historico), tipo)

SomaDoTipo(historico, tipo) == SumSeq(ValoresDoTipo(historico, tipo))

EntradasDoTipo(historico, tipo) == Len(ValoresDoTipo(historico, tipo))

\* the latest option was a deposit / a withdrawal that reached account n
Depositou(o, n) == o.opcao = "d" /\ o.conta = n
Sacou(o, n) == o.opcao = "s" /\ o.conta = n

\* exactly one entry of that kind and amount was appended
Acrescentou(antes, depois, tipo, valor) ==
  /\ Len(depois) = Len(antes) + 1
  /\ SubSeq(depois, 1, Len(antes)) = antes
  /\ depois[Len(depois)].tipo = tipo
  /\ depois[Len(depois)].valor = valor

\* C1: every account's balance is the sum of the deposits applied to it minus
\* the sum of the withdrawals applied to it, starting from 0.
C1_SaldoEhDepositosMenosSaques ==
  \A n \in Contas :
    contas[n].saldo = SomaDoTipo(contas[n].historico, "Deposito")
                      - SomaDoTipo(contas[n].historico, "Saque")

\* C2: a deposit of an amount <= 0 leaves the balance and the history of the
\* account unchanged.
C2_DepositoInvalidoNaoAltera ==
  [][\A n \in Contas :
       (Depositou(op', n) /\ op'.valor <= 0) => contas'[n] = contas[n]]_vars

\* C3: a deposit of an amount > 0 raises the balance by the amount and appends
\* exactly one deposit entry of that amount to the history.
C3_DepositoValidoCredita ==
  [][\A n \in Contas :
       (Depositou(op', n) /\ op'.valor > 0) =>
         /\ contas'[n].saldo = contas[n].saldo + op'.valor
         /\ Acrescentou(contas[n].historico, contas'[n].historico, "Deposito", op'.valor)]_vars

\* C4: the history of a checking account never holds more withdrawal entries
\* than its limite_saques.
C4_SaquesNoHistoricoLimitados ==
  \A n \in Contas :
    EntradasDoTipo(contas[n].historico, "Saque") <= contas[n].limite_saques

\* C5: a withdrawal attempt is either rejected, and then the account is
\* unchanged, or it succeeds, and then the balance drops by exactly the amount
\* and exactly one withdrawal entry of that amount is appended; a rejection
\* carries one of the four reasons.
C5_SaqueRejeitadoOuRegistrado ==
  [][\A n \in Contas :
       Sacou(op', n) =>
         \/ /\ op'.motivo \in {"valor_invalido", "excede_limite",
                               "excede_saques", "excede_disponivel"}
            /\ contas'[n] = contas[n]
         \/ /\ op'.motivo = "sucesso"
            /\ contas'[n].saldo = contas[n].saldo - op'.valor
            /\ Acrescentou(contas[n].historico, contas'[n].historico, "Saque", op'.valor)]_vars

\* a withdrawal was just rejected on an account that recorded an earlier one
C5_Witness ==
  \E n \in Contas :
    /\ Sacou(op, n)
    /\ op.motivo = "excede_disponivel"
    /\ EntradasDoTipo(contas[n].historico, "Saque") >= 1
    /\ contas[n].saldo = - SomaDoTipo(contas[n].historico, "Saque")

\* C6: the balance of a checking account never drops below minus its limite.
C6_SaldoAcimaDoPiso ==
  \A n \in Contas : contas[n].saldo >= - contas[n].limite

\* an account sits exactly on the floor and a further withdrawal was refused
C6_Witness ==
  \E n \in Contas :
    /\ contas[n].saldo = - contas[n].limite
    /\ Sacou(op, n)
    /\ op.valor > 0
    /\ op.motivo = "excede_disponivel"

\* C7: a withdrawal of more than limite is rejected whatever the balance, and
\* no withdrawal entry of a history has an amount above limite.
C7_SaqueAcimaDoLimiteRejeitado ==
  [][/\ \A n \in Contas :
          (Sacou(op', n) /\ op'.valor > contas[n].limite) =>
            /\ op'.motivo = "excede_limite"
            /\ contas'[n] = contas[n]
     /\ \A n \in 1..Len(contas') :
          \A i \in 1..Len(contas'[n].historico) :
            contas'[n].historico[i].tipo = "Saque" =>
              contas'[n].historico[i].valor <= contas'[n].limite]_vars

\* a withdrawal above limite was just refused on an account whose balance covers it
C7_Witness ==
  \E n \in Contas :
    /\ Sacou(op, n)
    /\ op.valor > contas[n].limite
    /\ op.motivo = "excede_limite"
    /\ contas[n].saldo >= op.valor
    /\ EntradasDoTipo(contas[n].historico, "Saque") >= 1

\* the reason the four gates give when taken in order, the third one counting
\* the withdrawal entries of the history
PrimeiroPortaoQueFalha(conta, valor) ==
  IF valor <= 0 THEN "valor_invalido"
  ELSE IF valor > conta.limite THEN "excede_limite"
  ELSE IF EntradasDoTipo(conta.historico, "Saque") >= conta.limite_saques THEN "excede_saques"
  ELSE IF valor > conta.saldo + conta.limite THEN "excede_disponivel"
  ELSE "sucesso"

\* C8: the outcome reported for a withdrawal is that of the first gate that
\* fails, in the order invalid amount, amount above limite, withdrawal count
\* reached, amount above balance + limite.
C8_MotivoEhPrimeiroPortao ==
  [][\A n \in Contas :
       Sacou(op', n) => op'.motivo = PrimeiroPortaoQueFalha(contas[n], op'.valor)]_vars

\* C9: on a fresh account a withdrawal of 500 succeeds and leaves -500; while
\* no deposit follows, every withdrawal of a positive amount is rejected; once
\* a deposit of d > 0 has followed, a withdrawal of at most min(d, 500) is
\* accepted.
C9_SaqueVoltaAposDeposito ==
  [][\A n \in Contas :
       Sacou(op', n) =>
         /\ (contas[n].historico = <<>> /\ contas[n].saldo = 0 /\ op'.valor = 500) =>
              (op'.motivo = "sucesso" /\ contas'[n].saldo = -500)
         /\ (contas[n].historico = <<Entrada("Saque", 500)>> /\ op'.valor > 0) =>
              (op'.motivo # "sucesso" /\ contas'[n] = contas[n])
         /\ \A d \in ValoresDeposito :
              ( /\ contas[n].historico = <<Entrada("Saque", 500), Entrada("Deposito", d)>>
                /\ d > 0 /\ op'.valor > 0 /\ op'.valor <= d /\ op'.valor <= 500 ) =>
                (op'.motivo = "sucesso")]_vars

Prefixo(antes, depois) ==
  Len(antes) <= Len(depois) /\ SubSeq(depois, 1, Len(antes)) = antes

\* C11: no two clients of the registry have the same cpf; a creation with a
\* cpf already registered is rejected and leaves the registry unchanged, and
\* the entries already in the registry stay as they are.
C11_CpfUnico ==
  [][/\ \A i, j \in 1..Len(clientes') :
          clientes'[i].cpf = clientes'[j].cpf => i = j
     /\ (op'.opcao = "nu" /\ \E i \in 1..Len(clientes) : clientes[i].cpf = op'.cpf) =>
          (clientes' = clientes /\ op'.motivo = "cpf_ja_existe")
     /\ (op'.opcao = "nu" /\ \A i \in 1..Len(clientes) : clientes[i].cpf # op'.cpf) =>
          (clientes' = Append(clientes, PessoaFisica(op'.cpf)))
     /\ Len(clientes') >= Len(clientes)
     /\ \A i \in 1..Len(clientes) : clientes'[i].cpf = clientes[i].cpf]_vars

\* a second creation with a registered cpf was just rejected
C11_Witness ==
  /\ op.opcao = "nu"
  /\ op.motivo = "cpf_ja_existe"
  /\ Len(clientes) = 2

\* C12: the i-th account of the registry has number i, and a creation that
\* fails because the client is not found adds no account.
C12_NumerosSequenciais ==
  [][/\ \A i \in 1..Len(contas') : contas'[i].numero = i
     /\ (op'.opcao = "nc" /\ op'.motivo = "sucesso") => Len(contas') = Len(contas) + 1
     /\ (op'.opcao = "nc" /\ \A i \in 1..Len(clientes) : clientes[i].cpf # op'.cpf) =>
          contas' = contas]_vars

\* two accounts of two different owners are numbered 1 and 2
C12_Witness ==
  /\ Len(contas) = 2
  /\ contas[1].cliente # contas[2].cliente
  /\ contas[1].cliente = 2
  /\ contas[2].numero = 2

\* C13: across every step the history of an account is a prefix of its history
\* afterwards, and showing the statement changes neither registry.
C13_HistoricoSoCresce ==
  [][/\ \A n \in Contas : Prefixo(contas[n].historico, contas'[n].historico)
     /\ op'.opcao = "e" => (contas' = contas /\ clientes' = clientes)]_vars

\* the statement of an account with two entries was just shown
C13_Witness ==
  /\ op.opcao = "e"
  /\ op.motivo = "extrato"
  /\ \E c \in 1..Len(clientes) :
       /\ clientes[c].cpf = op.cpf
       /\ Len(contas[recuperar_conta_cliente(clientes[c])].historico) >= 2

\* C14: on an account of the base class a withdrawal of an amount <= 0 or above
\* the balance is rejected and changes nothing, any other lowers the balance by
\* exactly the amount; the balance is never negative.
C14_ContaBasicaSemNegativo ==
  [][/\ \A n \in Contas :
          (op'.opcao = "Conta.sacar" /\ op'.conta = n) =>
            IF op'.valor <= 0 \/ op'.valor > contas[n].saldo
            THEN contas'[n] = contas[n] /\ op'.retorno = "False"
            ELSE /\ contas'[n] = [contas[n] EXCEPT !.saldo = @ - op'.valor]
                 /\ op'.retorno = "True"
     /\ \A n \in 1..Len(contas') : contas'[n].saldo >= 0]_vars

\* a withdrawal above a positive balance was just rejected, after one that
\* emptied another account
C14_Witness ==
  \E n, m \in Contas :
    /\ op.opcao = "Conta.sacar"
    /\ op.conta = n
    /\ op.retorno = "False"
    /\ op.valor > contas[n].saldo
    /\ contas[n].saldo > 0
    /\ contas[m].saldo = 0

\* the clients whose list holds account n, and how often client c's list holds it
DonosDe(n) == {c \in 1..Len(clientes) : \E k \in 1..Len(clientes[c].contas) : clientes[c].contas[k] = n}

VezesNaLista(c, n) ==
  Cardinality({k \in 1..Len(clientes[c].contas) : clientes[c].contas[k] = n})

\* the registries agree in this state
RegistrosConcordam ==
  /\ \A n \in Contas :
       /\ contas[n].cliente \in 1..Len(clientes)
       /\ DonosDe(n) = {contas[n].cliente}
       /\ VezesNaLista(contas[n].cliente, n) = 1
  /\ \A c \in 1..Len(clientes) :
       \A k \in 1..Len(clientes[c].contas) : clientes[c].contas[k] \in Contas

\* C15: every account of the registry is once in the list of exactly one
\* client, its owner, who is in the clients registry; no list holds an account
\* absent from the registry; the owner of an account never changes.
C15_RegistrosConsistentes ==
  [][/\ RegistrosConcordam'
     /\ \A n \in Contas : contas'[n].cliente = contas[n].cliente
     /\ \A c \in 1..Len(clientes) : clientes'[c].cpf = clientes[c].cpf]_vars

\* two clients, one of them holding both accounts
C15_Witness ==
  /\ Len(clientes) = 2
  /\ Len(contas) = 2
  /\ clientes[2].contas = <<1, 2>>
  /\ clientes[1].contas = <<>>

Registrado(cpf) == \E i \in 1..Len(clientes) : clientes[i].cpf = cpf

SemConta(cpf) == \E i \in 1..Len(clientes) : clientes[i].cpf = cpf /\ clientes[i].contas = <<>>

\* C16: a deposit, a withdrawal or an account creation for a cpf that is not
\* registered, and a deposit or a withdrawal for a client without account, is
\* declined and leaves both registries, with every balance and history, unchanged.
C16_RecusaSemEfeito ==
  [][/\ (op'.opcao \in {"d", "s", "nc"} /\ ~Registrado(op'.cpf)) =>
          /\ op'.motivo = "cliente_nao_encontrado"
          /\ clientes' = clientes /\ contas' = contas
     /\ (op'.opcao \in {"d", "s"} /\ SemConta(op'.cpf)) =>
          /\ op'.motivo = "cliente_sem_conta"
          /\ clientes' = clientes /\ contas' = contas]_vars

\* a withdrawal for a client without account was just declined while another
\* client holds an account with a history
C16_Witness ==
  /\ op.opcao = "s"
  /\ op.valor > 0
  /\ op.motivo = "cliente_sem_conta"
  /\ \E n \in Contas : contas[n].historico # <<>>

\* the first account created for the client of that cpf, 0 if there is none
PrimeiraConta(cpf) ==
  LET minhas == {n \in Contas : clientes[contas[n].cliente].cpf = cpf} IN
  IF minhas = {} THEN 0 ELSE CHOOSE n \in minhas : \A m \in minhas : n <= m

\* C17: a deposit or withdrawal of the menu changes at most the balance and the
\* history of the first account created for the client of the cpf given; every
\* other account and both registries' membership stay as they were.
C17_SoPrimeiraContaMuda ==
  [][op'.opcao \in {"d", "s"} =>
       /\ clientes' = clientes
       /\ Len(contas') = Len(contas)
       /\ LET primeira == PrimeiraConta(op'.cpf) IN
          \A n \in Contas :
            IF n = primeira
            THEN contas'[n] = [contas[n] EXCEPT !.saldo = contas'[n].saldo,
                                                 !.historico = contas'[n].historico]
            ELSE contas'[n] = contas[n]]_vars

\* a withdrawal was just applied to the first of the two accounts of a client
C17_Witness ==
  \E c \in 1..Len(clientes) :
    /\ Len(clientes[c].contas) = 2
    /\ Sacou(op, clientes[c].contas[1])
    /\ op.motivo = "sucesso"
    /\ contas[clientes[c].contas[2]].historico = <<>>
    /\ contas[clientes[c].contas[2]].saldo = 0

\* C18: in the history of a checking account the withdrawal entries sum to at
\* most the deposit entries plus limite.
C18_SaquesCobertosPorDepositos ==
  \A n \in Contas :
    SomaDoTipo(contas[n].historico, "Saque")
      <= SomaDoTipo(contas[n].historico, "Deposito") + contas[n].limite

====
